---- MODULE Spec2Model ----
(***************************************************************************)
(* Incremental nonbonded energy evaluation (src/src/energy.h) and the      *)
(* Markov-chain loops that feed an energy drift tracker                    *)
(* (src/src/playground/stenqvist/nemo.cpp, src/undone/python-test).        *)
(*                                                                         *)
(* Energies are integers.  A particle is [id, pos, q]: a unique index into *)
(* the particle vector, a position on a periodic one-dimensional box and a *)
(* charge.  A space is [groups |-> sequence of groups], a group being a    *)
(* sequence of particles.  Group indices are 0-based as in the code, so    *)
(* group i of the code is groups[i+1] here.                                *)
(***************************************************************************)
EXTENDS Integers, Sequences, FiniteSets

VARIABLES
    oldspc,     \* accepted particle store (spc.p side)
    newspc,     \* trial particle store
    change,     \* change set of the proposed move
    nb,         \* the Nonbonded object: its pair potential and the call log
    ret,        \* what the last call of Nonbonded::energy gave back
    prev,       \* what the call before that gave back (same inputs)
    sys,        \* the energy drift tracker
    hist,       \* the tracker operations made so far, in order
    pc,         \* position in main: "seed", "micro", "check", "done"
    macro,      \* macro steps completed
    micro,      \* micro steps completed in the current macro step
    i2x,        \* the last call of Nonbonded::index2index: arguments and result
    n2i,        \* the last call of names2ids: arguments and result
    tbl,        \* a Table2D: its resolution, its map and what save wrote
    hg          \* a histogram: its limits, its bins and cnt

vars == <<oldspc, newspc, change, nb, ret, prev, sys, hist, pc, macro, micro,
          i2x, n2i, tbl, hg>>

\* the objects a specification does not use
rest == <<i2x, n2i, tbl, hg>>

Unused == [used |-> FALSE]

Idle == i2x = Unused /\ n2i = Unused /\ tbl = Unused /\ hg = Unused

----------------------------------------------------------------------------
(* Bounds of the model *)

MaxGroups == 3
MaxSize == 2
BoxLen == 3
MaxOps == 2
MaxTouched == 2
MaxMacro == 2
MaxMicro == 2

----------------------------------------------------------------------------
(* Geometry and pair potential: external collaborators of the evaluator *)

Abs(x) == IF x < 0 THEN -x ELSE x

\* minimum-image separation of two positions on the periodic box
vdist(a, b) ==
    LET d == (a - b) % BoxLen
    IN  IF 2 * d > BoxLen THEN d - BoxLen ELSE d

\* a soft, finite pair potential: charge product times a function of |r|
pairpot(pot, a, b, r) ==
    pot.eps * a.q * b.q * (BoxLen - Abs(r)) * (BoxLen - Abs(r))

----------------------------------------------------------------------------
(* Nonbonded (energy.h).  Every operator threads the accumulator           *)
(* acc = [u, n, pairs]: the energy summed so far, and the call count and   *)
(* the set of particle-id pairs seen by the instrumented pair potential.   *)

ZeroAcc == [u |-> 0, n |-> 0, pairs |-> {}]

i2i(pot, spc, a, b) == pairpot(pot, a, b, vdist(a.pos, b.pos))

RECURSIVE g2gInner(_, _, _, _, _, _)
g2gInner(acc, pot, spc, a, g2, j) ==
    IF j > Len(g2) THEN acc
    ELSE g2gInner([u     |-> acc.u + i2i(pot, spc, a, g2[j]),
                   n     |-> acc.n + 1,
                   pairs |-> acc.pairs \cup {<<a.id, g2[j].id>>}],
                  pot, spc, a, g2, j + 1)

RECURSIVE g2gOuter(_, _, _, _, _, _)
g2gOuter(acc, pot, spc, g1, g2, i) ==
    IF i > Len(g1) THEN acc
    ELSE g2gOuter(g2gInner(acc, pot, spc, g1[i], g2, 1), pot, spc, g1, g2, i + 1)

\* the inner loop started at the outer index
RECURSIVE g2gOuterTriangular(_, _, _, _, _, _)
g2gOuterTriangular(acc, pot, spc, g1, g2, i) ==
    IF i > Len(g1) THEN acc
    ELSE g2gOuterTriangular(g2gInner(acc, pot, spc, g1[i], g2, i), pot, spc, g1, g2, i + 1)

g2gTriangular(pot, spc, g1, g2) == g2gOuterTriangular(ZeroAcc, pot, spc, g1, g2, 1)

g2g(pot, spc, g1, g2) == g2gOuter(ZeroAcc, pot, spc, g1, g2, 1)

(* Change set (Tspace::Tchange): [groups |-> sequence of [index |-> i]] *)

empty(ch) == Len(ch.groups) = 0

touchedGroupIndex(ch) == [k \in 1..Len(ch.groups) |-> ch.groups[k].index]

\* ranges::view::ints(a, b): a, a+1, ..., b-1
ints(a, b) == [k \in 1..(IF b > a THEN b - a ELSE 0) |-> a + k - 1]

\* std::binary_search as std::lower_bound computes it (halving a range that
\* starts at first and holds len elements)
RECURSIVE lower_bound(_, _, _, _)
lower_bound(s, v, first, len) ==
    IF len <= 0 THEN first
    ELSE LET half == len \div 2
             mid  == first + half
         IN  IF s[mid] < v
             THEN lower_bound(s, v, mid + 1, len - half - 1)
             ELSE lower_bound(s, v, first, half)

\* the last element of the range never compared
binary_searchBeforeLast(s, v) ==
    LET i == lower_bound(s, v, 1, Len(s))
    IN  i < Len(s) /\ ~(v < s[i])

binary_search(s, v) ==
    LET i == lower_bound(s, v, 1, Len(s))
    IN  i <= Len(s) /\ ~(v < s[i])

\* the range of group indices started at 1
fixedGroupsFromOne(moved, ngroups) ==
    SelectSeq(ints(1, ngroups), LAMBDA i : ~binary_search(moved, i))

\* index of static groups: ints(0, groups.size()) | remove_if(binary_search(moved, i))
fixedGroups(moved, ngroups) ==
    SelectSeq(ints(0, ngroups), LAMBDA i : ~binary_search(moved, i))

\* the new-state sum taken in the old store
RECURSIVE energyFixedLoopOldTwice(_, _, _, _, _, _, _)
energyFixedLoopOldTwice(e, pot, ospc, nspc, d, fixed, j) ==
    IF j > Len(fixed) THEN e
    ELSE LET i  == fixed[j]
             go == g2g(pot, ospc, ospc.groups[d.index + 1], ospc.groups[i + 1])
             gn == g2g(pot, ospc, ospc.groups[d.index + 1], ospc.groups[i + 1])
         IN  energyFixedLoopOldTwice([uold  |-> e.uold + go.u,
                                      unew  |-> e.unew + gn.u,
                                      n     |-> e.n + go.n + gn.n,
                                      pairs |-> e.pairs \cup go.pairs \cup gn.pairs,
                                      gcalls |-> e.gcalls \cup {<<d.index, i>>}],
                                     pot, ospc, nspc, d, fixed, j + 1)

\* the moved<->static loop body for one touched group d and the fixed groups from j on
RECURSIVE energyFixedLoop(_, _, _, _, _, _, _)
energyFixedLoop(e, pot, ospc, nspc, d, fixed, j) ==
    IF j > Len(fixed) THEN e
    ELSE LET i  == fixed[j]
             go == g2g(pot, ospc, ospc.groups[d.index + 1], ospc.groups[i + 1])
             gn == g2g(pot, nspc, nspc.groups[d.index + 1], nspc.groups[i + 1])
         IN  energyFixedLoop([uold  |-> e.uold + go.u,
                              unew  |-> e.unew + gn.u,
                              n     |-> e.n + go.n + gn.n,
                              pairs |-> e.pairs \cup go.pairs \cup gn.pairs,
                              gcalls |-> e.gcalls \cup {<<d.index, i>>}],
                             pot, ospc, nspc, d, fixed, j + 1)

\* every group but d itself taken as fixed: the touched groups other than d
\* are paired with d as well
RECURSIVE energyMovedLoopWithMoved(_, _, _, _, _, _, _)
energyMovedLoopWithMoved(e, pot, ospc, nspc, ch, fixed, k) ==
    IF k > Len(ch.groups) THEN e
    ELSE energyMovedLoopWithMoved(
             energyFixedLoop(e, pot, ospc, nspc, ch.groups[k],
                             SelectSeq(ints(0, Len(ospc.groups)),
                                       LAMBDA i : i # ch.groups[k].index), 1),
             pot, ospc, nspc, ch, fixed, k + 1)

\* for (auto &d : change.groups) ...
RECURSIVE energyMovedLoop(_, _, _, _, _, _, _)
energyMovedLoop(e, pot, ospc, nspc, ch, fixed, k) ==
    IF k > Len(ch.groups) THEN e
    ELSE energyMovedLoop(energyFixedLoop(e, pot, ospc, nspc, ch.groups[k], fixed, 1),
                         pot, ospc, nspc, ch, fixed, k + 1)

\* gcalls: the (group, group) index pairs g2g was called on
ZeroEnergy == [uold |-> 0, unew |-> 0, n |-> 0, pairs |-> {}, gcalls |-> {}]

\* Nonbonded::energy, given the range `fixed` its view evaluates to
energyWith(pot, ospc, nspc, ch, fixed) ==
    IF empty(ch) THEN ZeroEnergy
    ELSE energyMovedLoop(ZeroEnergy, pot, ospc, nspc, ch, fixed, 1)

\* an empty change set taken for "every group changed"
energyEmptyAsAll(pot, ospc, nspc, ch) ==
    IF empty(ch)
    THEN energyMovedLoop(ZeroEnergy, pot, ospc, nspc,
                         [groups |-> [k \in 1..Len(ospc.groups) |-> [index |-> k - 1]]],
                         ints(0, Len(ospc.groups)), 1)
    ELSE energyWith(pot, ospc, nspc, ch,
                    fixedGroups(touchedGroupIndex(ch), Len(ospc.groups)))

\* Nonbonded::energy: [uold, unew] as returned, with the pair potential's
\* call count n and the id pairs it was called on
energy(pot, ospc, nspc, ch) ==
    energyWith(pot, ospc, nspc, ch,
               fixedGroups(touchedGroupIndex(ch), Len(ospc.groups)))

----------------------------------------------------------------------------
(* Particle stores and the moves the inputs of Nonbonded::energy are drawn from *)

MkParticle(id) == [id |-> id, pos |-> id % BoxLen, q |-> 1 + (id % 2)]

RECURSIVE Offset(_, _)
Offset(sizes, k) == IF k <= 1 THEN 0 ELSE Offset(sizes, k - 1) + sizes[k - 1]

\* the space whose group k holds sizes[k] consecutive particles of the lattice
MkSpace(sizes) ==
    [groups |-> [k \in 1..Len(sizes) |->
                    [j \in 1..sizes[k] |-> MkParticle(Offset(sizes, k) + j - 1)]]]

SizeVectors == UNION {[1..n -> 0..MaxSize] : n \in 0..MaxGroups}

Displace(p, delta) == [p EXCEPT !.pos = (p.pos + delta) % BoxLen]

\* groups whose index is in M translated rigidly by delta
Translate(spc, M, delta) ==
    [groups |-> [k \in 1..Len(spc.groups) |->
                    IF (k - 1) \in M
                    THEN [j \in 1..Len(spc.groups[k]) |-> Displace(spc.groups[k][j], delta)]
                    ELSE spc.groups[k]]]

\* particle j of group g alone displaced by delta
TranslateAtom(spc, g, j, delta) ==
    [groups |-> [spc.groups EXCEPT ![g + 1][j] = Displace(@, delta)]]

RECURSIVE SortedSeq(_)
SortedSeq(S) ==
    IF S = {} THEN <<>>
    ELSE LET m == CHOOSE x \in S : \A y \in S : x <= y
         IN  <<m>> \o SortedSeq(S \ {m})

MkChange(indices) == [groups |-> [k \in 1..Len(indices) |-> [index |-> indices[k]]]]

GroupIndices(spc) == 0..(Len(spc.groups) - 1)

\* a change set as the data model wants it: indices in range, sorted, unique
ValidChange(spc, ch) ==
    LET m == touchedGroupIndex(ch)
    IN  /\ \A k \in 1..Len(m) : m[k] \in GroupIndices(spc)
        /\ \A k \in 1..(Len(m) - 1) : m[k] < m[k + 1]

\* the calls of Nonbonded::energy whose behaviour the language defines:
\* every groups[d.index] exists and binary_search is given a sorted range
InRange(spc, ch) == \A k \in 1..Len(ch.groups) : ch.groups[k].index \in GroupIndices(spc)

Sorted(m) == \A k \in 1..(Len(m) - 1) : m[k] <= m[k + 1]

NoTracker == [initial |-> 0, running |-> 0, drift |-> 0,
              checks |-> 0, reports |-> 0, aborted |-> FALSE]

NoReturn == [status |-> "none", uold |-> 0, unew |-> 0]

NewNonbonded == [pairpot |-> [eps |-> 2], calls |-> 0, pairs |-> {}, gcalls |-> {}]

\* the trial stores evaluateChange is handed with a change set touching the
\* groups T: any of the touched groups translated, or one particle of the one
\* touched group displaced; with no group touched, any trial store at all
Trials(spc, T) ==
    {Translate(spc, M, delta) :
        M \in SUBSET (IF T = {} THEN GroupIndices(spc) ELSE T),
        delta \in 1..(BoxLen - 1)}
    \cup UNION {{TranslateAtom(spc, g, j, delta) :
                    j \in 1..Len(spc.groups[g + 1]), delta \in 1..(BoxLen - 1)} :
                g \in {x \in T : Cardinality(T) = 1}}

Init ==
    \E sizes \in SizeVectors :
        \E T \in SUBSET (0..(Len(sizes) - 1)) :
            \E trial \in Trials(MkSpace(sizes), T) :
                /\ oldspc = MkSpace(sizes)
                /\ newspc = trial
                /\ change = MkChange(SortedSeq(T))
                /\ nb = NewNonbonded
                /\ ret = NoReturn
                /\ prev = NoReturn
                /\ sys = NoTracker
                /\ hist = <<>>
                /\ pc = "call"
                /\ macro = 0
                /\ micro = 0
                /\ Idle

\* the accumulators kept from one call to the next instead of starting at 0
EnergyStateful ==
    /\ pc = "call"
    /\ InRange(oldspc, change)
    /\ Sorted(touchedGroupIndex(change))
    /\ LET e == energy(nb.pairpot, oldspc, newspc, change)
       IN  /\ ret' = [status |-> "ok", uold |-> ret.uold + e.uold, unew |-> ret.unew + e.unew]
           /\ nb' = [nb EXCEPT !.calls = e.n, !.pairs = e.pairs, !.gcalls = e.gcalls]
    /\ prev' = ret
    /\ UNCHANGED <<oldspc, newspc, change, sys, hist, pc, macro, micro>>
    /\ UNCHANGED rest

\* one call of Nonbonded::energy(oldspc, newspc, change)
Energy ==
    /\ pc = "call"
    /\ InRange(oldspc, change)
    /\ Sorted(touchedGroupIndex(change))
    /\ LET e == energy(nb.pairpot, oldspc, newspc, change)
       IN  /\ ret' = [status |-> "ok", uold |-> e.uold, unew |-> e.unew]
           /\ nb' = [nb EXCEPT !.calls = e.n, !.pairs = e.pairs, !.gcalls = e.gcalls]
    /\ prev' = ret
    /\ UNCHANGED <<oldspc, newspc, change, sys, hist, pc, macro, micro>>
    /\ UNCHANGED rest

Next == Energy

Spec == Init /\ [][Next]_vars

----------------------------------------------------------------------------
(* Reference quantities the claims are stated with: sums over sets, written *)
(* without the loops of energy.h.                                          *)

\* sum of the values of a function with a finite domain
RECURSIVE FnSum(_, _)
FnSum(f, S) ==
    IF S = {} THEN 0
    ELSE LET x == CHOOSE y \in S : TRUE
         IN  f[x] + FnSum(f, S \ {x})

Touched(ch) == {ch.groups[k].index : k \in 1..Len(ch.groups)}

FixedSet(spc, ch) == GroupIndices(spc) \ Touched(ch)

GroupSizeOf(spc, g) == Len(spc.groups[g + 1])

\* sum of the pair potential over the cross product of groups a and b of spc
CrossSum(pot, spc, a, b) ==
    LET A == spc.groups[a + 1]
        B == spc.groups[b + 1]
        P == (1..Len(A)) \X (1..Len(B))
    IN  FnSum([ij \in P |-> pairpot(pot, A[ij[1]], B[ij[2]],
                                    vdist(A[ij[1]].pos, B[ij[2]].pos))], P)

\* full recomputation of the inter-group pairwise energy of a store
FullEnergy(pot, spc) ==
    LET P == {ab \in GroupIndices(spc) \X GroupIndices(spc) : ab[1] < ab[2]}
    IN  FnSum([ab \in P |-> CrossSum(pot, spc, ab[1], ab[2])], P)

\* moved<->static energy of a store under a change set
MovedStaticSum(pot, spc, ch) ==
    LET P == Touched(ch) \X FixedSet(spc, ch)
    IN  FnSum([df \in P |-> CrossSum(pot, spc, df[1], df[2])], P)

\* ids of the particles of group g
IdsOf(spc, g) == {spc.groups[g + 1][j].id : j \in 1..Len(spc.groups[g + 1])}

UntouchedIds(spc, ch) == UNION {IdsOf(spc, f) : f \in FixedSet(spc, ch)}

Returned == ret.status = "ok"

\* the stores have the same partitioning and differ at most in the groups of G
DiffersOnlyIn(ospc, nspc, G) ==
    /\ Len(ospc.groups) = Len(nspc.groups)
    /\ \A k \in 1..Len(ospc.groups) :
        /\ Len(ospc.groups[k]) = Len(nspc.groups[k])
        /\ (k - 1) \notin G => ospc.groups[k] = nspc.groups[k]

OneTouched == Len(change.groups) = 1 /\ ValidChange(oldspc, change)

TheTouched == change.groups[1].index

\* |g| times the sum of |f| over the groups f other than g
MovedStaticPairs(spc, g) ==
    LET others == GroupIndices(spc) \ {g}
    IN  GroupSizeOf(spc, g) * FnSum([f \in others |-> GroupSizeOf(spc, f)], others)

\* no pair the potential was called on has both particles in untouched groups
NoStaticStaticPair ==
    \A pr \in nb.pairs :
        ~(pr[1] \in UntouchedIds(oldspc, change) /\ pr[2] \in UntouchedIds(oldspc, change))

----------------------------------------------------------------------------
(* Claims about Nonbonded::energy, checked under Spec *)

\* C1: whatever the old store, the new store and the number of groups (zero
\* included), a change set touching no group makes energy return exactly
\* (0, 0) without a single call of the pair potential.
C1_EmptyChangeIsZero ==
    (Returned /\ empty(change)) =>
        (ret.uold = 0 /\ ret.unew = 0 /\ nb.calls = 0 /\ nb.pairs = {})

C1_Witness ==
    /\ Returned /\ empty(change)
    /\ Len(oldspc.groups) >= 2
    /\ newspc # oldspc
    /\ FullEnergy(nb.pairpot, oldspc) # 0

\* C2: when the stores have the same partitioning and differ only in the one
\* touched group g, the returned delta unew - uold is the difference of the
\* full inter-group pairwise energies of the new and of the old store.
C2_DeltaIsFullDifference ==
    (Returned /\ OneTouched /\ DiffersOnlyIn(oldspc, newspc, {TheTouched})) =>
        ret.unew - ret.uold =
            FullEnergy(nb.pairpot, newspc) - FullEnergy(nb.pairpot, oldspc)

C2_Witness ==
    /\ Returned /\ OneTouched /\ DiffersOnlyIn(oldspc, newspc, {TheTouched})
    /\ ret.unew # ret.uold
    /\ \E a, b \in FixedSet(oldspc, change) :
          a < b /\ CrossSum(nb.pairpot, oldspc, a, b) # 0

\* C3: for a non-empty change set, uold is the sum over every touched group d
\* and every untouched group f of the cross-product energy of d and f in the
\* old store, unew is the same sum in the new store, and no pair of two
\* untouched particles is handed to the pair potential.
C3_MovedStaticSums ==
    (Returned /\ ~empty(change) /\ ValidChange(oldspc, change)) =>
        /\ ret.uold = MovedStaticSum(nb.pairpot, oldspc, change)
        /\ ret.unew = MovedStaticSum(nb.pairpot, newspc, change)
        /\ NoStaticStaticPair

C3_Witness ==
    /\ Returned /\ Len(change.groups) = 2 /\ ValidChange(oldspc, change)
    /\ ret.uold # 0 /\ ret.unew # ret.uold
    /\ Cardinality(UntouchedIds(oldspc, change)) >= 2

\* C4 as stated: with exactly one touched group g, the number of calls of the
\* pair potential made by one energy call is |g| times the sum of |f| over
\* the other groups.
C4_CallsOncePerPair ==
    (Returned /\ OneTouched) => nb.calls = MovedStaticPairs(oldspc, TheTouched)

\* C4 as amended: with exactly one touched group g, one energy call calls the
\* pair potential on |g| * sum(|f|, f # g) distinct particle pairs, once in
\* the old and once in the new store, which makes twice that many calls, and
\* never on a pair of two particles of untouched groups.
C4_CallsTwicePerPair ==
    (Returned /\ OneTouched) =>
        /\ nb.calls = 2 * MovedStaticPairs(oldspc, TheTouched)
        /\ Cardinality(nb.pairs) = MovedStaticPairs(oldspc, TheTouched)
        /\ NoStaticStaticPair

C4_Witness ==
    /\ Returned /\ OneTouched
    /\ Len(oldspc.groups) = 3
    /\ \A g \in GroupIndices(oldspc) : GroupSizeOf(oldspc, g) = 2
    /\ nb.calls = 16

TouchedIds(spc, ch) == UNION {IdsOf(spc, d) : d \in Touched(ch)}

\* energy of the pairs of distinct groups of spc that both lie in G
WithinSum(pot, spc, G) ==
    LET P == {ab \in G \X G : ab[1] < ab[2]}
    IN  FnSum([ab \in P |-> CrossSum(pot, spc, ab[1], ab[2])], P)

\* C11: with two or more groups touched, no pair of two particles of touched
\* groups is handed to the pair potential, and the energy between touched
\* groups is in neither uold nor unew: each is the full inter-group energy of
\* its store less the touched-touched and the fixed-fixed parts.
C11_MovedMovedLeftOut ==
    (Returned /\ ValidChange(oldspc, change) /\ Len(change.groups) >= 2) =>
        /\ \A pr \in nb.pairs :
              ~(pr[1] \in TouchedIds(oldspc, change) /\ pr[2] \in TouchedIds(oldspc, change))
        /\ FullEnergy(nb.pairpot, oldspc) - ret.uold =
              WithinSum(nb.pairpot, oldspc, Touched(change))
              + WithinSum(nb.pairpot, oldspc, FixedSet(oldspc, change))
        /\ FullEnergy(nb.pairpot, newspc) - ret.unew =
              WithinSum(nb.pairpot, newspc, Touched(change))
              + WithinSum(nb.pairpot, newspc, FixedSet(newspc, change))

C11_Witness ==
    /\ Returned /\ ValidChange(oldspc, change) /\ Len(change.groups) = 2
    /\ FixedSet(oldspc, change) # {}
    /\ nb.calls > 0
    /\ WithinSum(nb.pairpot, oldspc, Touched(change)) # 0
    /\ WithinSum(nb.pairpot, newspc, Touched(change))
          # WithinSum(nb.pairpot, oldspc, Touched(change))

\* C15: every g2g call of one energy call pairs a touched group with a group
\* of the fixed range, the fixed range is exactly the complement of the
\* touched indices in 0 .. number of groups - 1, so no group is paired with
\* itself and no particle with itself.
C15_TouchedTimesComplement ==
    (Returned /\ ValidChange(oldspc, change)) =>
        /\ nb.gcalls = Touched(change) \X (GroupIndices(oldspc) \ Touched(change))
        /\ \A gc \in nb.gcalls : gc[1] # gc[2]
        /\ \A pr \in nb.pairs : pr[1] # pr[2]

C15_Witness ==
    /\ Returned /\ ValidChange(oldspc, change)
    /\ Len(change.groups) = 2
    /\ Cardinality(nb.gcalls) = 2
    /\ \A g \in GroupIndices(oldspc) : GroupSizeOf(oldspc, g) > 0
    /\ Cardinality(nb.pairs) > 0

----------------------------------------------------------------------------
(* Energy drift tracker (EnergyDrift in nemo.cpp, systemenergy in           *)
(* pythontest.cpp): sys.init / sys += du / sys.checkDrift.                 *)

Tolerance == 1

\* sys.init(u): running seeded from one full recomputation
trackerInit(u) ==
    [initial |-> u, running |-> u, drift |-> 0,
     checks |-> 0, reports |-> 0, aborted |-> FALSE]

\* the two energies of the move added instead of subtracted
applyDeltaSum(t, dOld, dNew) == [t EXCEPT !.running = @ + dNew + dOld]

\* a move whose energy change exceeds the tolerance reported by applyDelta
applyDeltaReports(t, dOld, dNew) ==
    [t EXCEPT !.running = @ + dNew - dOld,
              !.reports = @ + (IF Abs(dNew - dOld) > Tolerance THEN 1 ELSE 0)]

\* applyDelta(deltaOld, deltaNew): running += deltaNew - deltaOld
applyDelta(t, dOld, dNew) == [t EXCEPT !.running = @ + dNew - dOld]

\* reconcile that overwrites running with the recomputed value
reconcileOverwrite(t, full) ==
    [t EXCEPT !.running = full,
              !.drift   = full - t.running,
              !.checks  = @ + 1,
              !.reports = @ + (IF Abs(full - t.running) > Tolerance THEN 1 ELSE 0)]

\* reconcile that gives up on a discrepancy beyond the tolerance
reconcileAborts(t, full) ==
    [t EXCEPT !.drift   = full - t.running,
              !.checks  = @ + 1,
              !.reports = @ + (IF Abs(full - t.running) > Tolerance THEN 1 ELSE 0),
              !.aborted = Abs(full - t.running) > Tolerance]

\* reconcile(fullRecomputation): compare running with the recomputation and
\* report the discrepancy; a discrepancy beyond the tolerance is a warning
reconcile(t, full) ==
    [t EXCEPT !.drift   = full - t.running,
              !.checks  = @ + 1,
              !.reports = @ + (IF Abs(full - t.running) > Tolerance THEN 1 ELSE 0)]

\* energies in units of 0.5: seeds 0 and 10.0, deltas -1, 0.5, 2 and 3
Seeds == {0, 20}
Deltas == {-2, 1, 4, 6}
\* how far the full recomputation handed to reconcile lies from running
Discrepancies == {-3, 0, 1}

InitTracker ==
    \E u \in Seeds :
        /\ sys = trackerInit(u)
        /\ hist = <<>>
        /\ pc = "tracker"
        /\ oldspc = MkSpace(<<>>)
        /\ newspc = MkSpace(<<>>)
        /\ change = MkChange(<<>>)
        /\ nb = NewNonbonded
        /\ ret = NoReturn
        /\ prev = NoReturn
        /\ macro = 0
        /\ micro = 0
        /\ Idle

\* sys += du on acceptance of a move with energies (dOld, dNew)
ApplyDelta ==
    /\ pc = "tracker"
    /\ Len(hist) < MaxOps
    /\ \E dOld \in Deltas, dNew \in Deltas :
          /\ sys' = applyDelta(sys, dOld, dNew)
          /\ hist' = Append(hist, [op |-> "apply", old |-> dOld, new |-> dNew])
    /\ UNCHANGED <<oldspc, newspc, change, nb, ret, prev, pc, macro, micro>>
    /\ UNCHANGED rest

\* sys.checkDrift(full)
Reconcile ==
    /\ pc = "tracker"
    /\ Len(hist) < MaxOps
    /\ \E off \in Discrepancies :
          /\ sys' = reconcile(sys, sys.running + off)
          /\ hist' = Append(hist, [op |-> "reconcile", old |-> sys.running,
                                   new |-> sys.running + off])
    /\ UNCHANGED <<oldspc, newspc, change, nb, ret, prev, pc, macro, micro>>
    /\ UNCHANGED rest

NextTracker == ApplyDelta \/ Reconcile

SpecTracker == InitTracker /\ [][NextTracker]_vars

----------------------------------------------------------------------------
(* Claims about the drift tracker, checked under SpecTracker *)

RECURSIVE DeltaSum(_, _)
DeltaSum(h, k) ==
    IF k = 0 THEN 0
    ELSE DeltaSum(h, k - 1) + (IF h[k].op = "apply" THEN h[k].new - h[k].old ELSE 0)

LastOp == IF Len(hist) = 0 THEN "none" ELSE hist[Len(hist)].op

\* C6: after any sequence of applyDelta calls running is the seed plus the sum
\* of deltaNew - deltaOld over the sequence; seeded at 10.0, applying (2, 3)
\* and then (-1, 0.5) gives 12.5 (20, (4, 6), (-2, 1) and 25 in units of 0.5).
C6_RunningIsSeedPlusDeltas ==
    /\ sys.running = sys.initial + DeltaSum(hist, Len(hist))
    /\ (/\ sys.initial = 20
        /\ hist = <<[op |-> "apply", old |-> 4, new |-> 6],
                    [op |-> "apply", old |-> -2, new |-> 1]>>)
           => sys.running = 25

C6_Witness ==
    /\ sys.initial = 20
    /\ hist = <<[op |-> "apply", old |-> 4, new |-> 6],
                [op |-> "apply", old |-> -2, new |-> 1]>>
    /\ sys.running = 25

\* C7: reconcile corrects nothing: whatever running and the recomputed value
\* are, running is after reconcile what it was before, and the tracker is
\* never aborted.
C7_ReconcileCorrectsNothing ==
    [][(Len(hist') = Len(hist) + 1 /\ hist'[Len(hist')].op = "reconcile") =>
          (sys'.running = sys.running /\ ~sys'.aborted)]_vars

C7_Witness ==
    /\ LastOp = "reconcile"
    /\ Abs(sys.drift) > Tolerance
    /\ sys.reports = 1
    /\ sys.running = hist[Len(hist)].old
    /\ ~sys.aborted

----------------------------------------------------------------------------
(* The Markov chain of main: the tracker is seeded, every micro step makes  *)
(* one move and adds its energy change to the tracker, every macro step    *)
(* ends with the drift check.  A move proposes a trial store and a change  *)
(* set, has Nonbonded::energy evaluate it, and is accepted or rejected.    *)

\* the moves of the chain: no group touched and nothing changed, or one or
\* two groups touched and any of them translated rigidly
LoopMoves(spc) ==
    {[T |-> {}, trial |-> spc]}
    \cup UNION {{[T |-> T, trial |-> Translate(spc, M, delta)] :
                    M \in SUBSET T, delta \in 1..(BoxLen - 1)} :
                T \in {S \in SUBSET GroupIndices(spc) : Cardinality(S) \in {1, 2}}}

\* the chain starts from groups of one common size
LoopSizes == {[k \in 1..n |-> sz] : n \in 0..MaxGroups, sz \in 1..MaxSize}

InitLoop ==
    \E sizes \in LoopSizes :
        /\ oldspc = MkSpace(sizes)
        /\ newspc = MkSpace(sizes)
        /\ change = MkChange(<<>>)
        /\ nb = NewNonbonded
        /\ ret = NoReturn
        /\ prev = NoReturn
        /\ sys = NoTracker
        /\ hist = <<>>
        /\ pc = "seed"
        /\ macro = 0
        /\ micro = 0
        /\ Idle

\* sys(pot.energy(cell.p)) / sys.init(systemEnergy(...)), then the loop tests
Seed ==
    /\ pc = "seed"
    /\ sys' = trackerInit(FullEnergy(nb.pairpot, oldspc))
    /\ pc' = "micro"
    /\ UNCHANGED <<oldspc, newspc, change, nb, ret, prev, hist, macro, micro>>
    /\ UNCHANGED rest

\* sys += move(): one micro step
MicroStep ==
    /\ pc = "micro"
    /\ micro < MaxMicro
    /\ \E mv \in LoopMoves(oldspc), accept \in BOOLEAN :
          LET e == energy(nb.pairpot, oldspc, mv.trial, MkChange(SortedSeq(mv.T)))
          IN  /\ sys' = IF accept THEN applyDelta(sys, e.uold, e.unew) ELSE sys
              /\ oldspc' = IF accept THEN mv.trial ELSE oldspc
              /\ newspc' = IF accept THEN mv.trial ELSE oldspc
    /\ micro' = micro + 1
    /\ UNCHANGED <<change, nb, ret, prev, hist, pc, macro>>
    /\ UNCHANGED rest

\* the drift check made inside the micro loop
CheckDriftInMicroLoop ==
    /\ pc = "micro"
    /\ micro >= 1
    /\ sys' = reconcile(sys, FullEnergy(nb.pairpot, oldspc))
    /\ macro' = macro + 1
    /\ micro' = 0
    /\ pc' = IF macro + 1 < MaxMacro THEN "micro" ELSE "done"
    /\ UNCHANGED <<oldspc, newspc, change, nb, ret, prev, hist>>
    /\ UNCHANGED rest

\* sys.checkDrift(systemEnergy(...)) / sys.update(pot.energy(cell.p)) at the
\* end of a macro step, then the macro loop test
CheckDrift ==
    /\ pc = "micro"
    /\ micro = MaxMicro
    /\ sys' = reconcile(sys, FullEnergy(nb.pairpot, oldspc))
    /\ macro' = macro + 1
    /\ micro' = 0
    /\ pc' = IF macro + 1 < MaxMacro THEN "micro" ELSE "done"
    /\ UNCHANGED <<oldspc, newspc, change, nb, ret, prev, hist>>
    /\ UNCHANGED rest

NextLoop == Seed \/ MicroStep \/ CheckDrift

SpecLoop == InitLoop /\ [][NextLoop]_vars

----------------------------------------------------------------------------
(* Claims about the chain, checked under SpecLoop *)

\* C5: with running seeded from a full recomputation, after any sequence of
\* accepted moves whose deltas were applied, running equals a full
\* recomputation of the pairwise energy of the current accepted store.
C5_RunningIsFullRecomputation ==
    pc \in {"micro", "done"} => sys.running = FullEnergy(nb.pairpot, oldspc)

\* C12: drift beyond the tolerance is not fatal and is reported at most once
\* per drift check, never by a move: in every run the reports are at most the
\* drift checks, the report count changes by one and only in a step that is
\* a drift check, and after a report the next move of the macro step can
\* still be made.
C12_DriftReportedPerCheck ==
    /\ [](sys.reports <= sys.checks /\ ~sys.aborted)
    /\ [][sys'.reports # sys.reports =>
             /\ sys'.reports = sys.reports + 1
             /\ sys'.checks = sys.checks + 1
             /\ sys'.running = sys.running
             /\ micro = MaxMicro /\ micro' = 0]_vars
    /\ []((sys.reports >= 1 /\ pc = "micro" /\ micro < MaxMicro) => ENABLED MicroStep)

\* a move accepted and applied in the macro step after a drift report
C12_Witness ==
    /\ sys.reports = 1 /\ sys.checks = 1
    /\ Abs(sys.drift) > Tolerance
    /\ macro = 1 /\ micro >= 1
    /\ sys.running + sys.drift # FullEnergy(nb.pairpot, oldspc)

\* C16: the tracker is seeded from one full recomputation before any move is
\* made; a move that changes the store has its energy change added to
\* running in the same step, so no move is proposed on a store whose last
\* move is unaccounted; the drift check runs once per macro step, after the
\* last micro step of that macro step.
C16_SeedMovesCheckInOrder ==
    /\ [](pc = "seed" => (sys = NoTracker /\ macro = 0 /\ micro = 0))
    /\ [](pc # "seed" => (sys.checks = macro /\ newspc = oldspc))
    /\ [][/\ pc = "seed" =>
               (sys' = trackerInit(FullEnergy(nb.pairpot, oldspc)) /\ oldspc' = oldspc)
          /\ oldspc' # oldspc =>
               /\ pc = "micro" /\ micro' = micro + 1 /\ macro' = macro
               /\ \E mv \in LoopMoves(oldspc) :
                     LET e == energy(nb.pairpot, oldspc, mv.trial, MkChange(SortedSeq(mv.T)))
                     IN  /\ oldspc' = mv.trial
                         /\ sys'.running = sys.running + e.unew - e.uold
          /\ (sys'.checks # sys.checks /\ pc # "seed") =>
               /\ micro = MaxMicro /\ micro' = 0 /\ macro' = macro + 1
               /\ sys'.checks = sys.checks + 1
               /\ sys'.drift = FullEnergy(nb.pairpot, oldspc) - sys.running
               /\ oldspc' = oldspc
          /\ macro' # macro => sys'.checks = sys.checks + 1]_vars

\* the chain run to its end with a move applied in it
C16_Witness ==
    /\ pc = "done" /\ macro = MaxMacro /\ sys.checks = MaxMacro
    /\ sys.running # sys.initial
    /\ sys.running = FullEnergy(nb.pairpot, oldspc)

----------------------------------------------------------------------------
(* Nonbonded::energy handed a change set that breaks the data model's      *)
(* invariant.  energy.h holds no test of the change set: an index outside  *)
(* the groups makes groups[d.index] read past the vector, and an unsorted  *)
(* index range breaks the precondition of std::binary_search; the language *)
(* defines neither, so every outcome the build can produce is a successor. *)

\* sequences of at most n elements of S
RECURSIVE SeqsUpTo(_, _)
SeqsUpTo(S, n) ==
    IF n = 0 THEN {<<>>}
    ELSE LET shorter == SeqsUpTo(S, n - 1)
         IN  shorter \cup {Append(q, x) : q \in {r \in shorter : Len(r) = n - 1}, x \in S}

InitRaw ==
    \E sizes \in SizeVectors :
        \E idx \in SeqsUpTo((-1)..Len(sizes), MaxTouched) :
            /\ oldspc = MkSpace(sizes)
            /\ newspc = Translate(MkSpace(sizes), {idx[k] : k \in 1..Len(idx)}, 1)
            /\ change = MkChange(idx)
            /\ nb = NewNonbonded
            /\ ret = NoReturn
            /\ prev = NoReturn
            /\ sys = NoTracker
            /\ hist = <<>>
            /\ pc = "call"
            /\ macro = 0
            /\ micro = 0
            /\ Idle

\* what a read past the end of the group vector can make of the energies
Garbage == {-1, 0, 7}

\* groups[d.index] with d.index outside the vector: a crash, or a pair of
\* energies summed over whatever the read found
EnergyOutOfRange ==
    /\ pc = "call"
    /\ ret.status = "none"
    /\ ~empty(change)
    /\ ~InRange(oldspc, change)
    /\ \/ ret' = [status |-> "crash", uold |-> 0, unew |-> 0]
       \/ \E g \in Garbage, h \in Garbage :
             ret' = [status |-> "ok", uold |-> g, unew |-> h]
    /\ prev' = ret
    /\ UNCHANGED <<oldspc, newspc, change, nb, sys, hist, pc, macro, micro>>
    /\ UNCHANGED rest

\* the ranges `fixed` can come out as when binary_search is run on an unsorted
\* range: an index that is not in `moved` is never found, one that is may be missed
FixedChoices(moved, ngroups) ==
    LET movedSet == {moved[k] : k \in 1..Len(moved)}
    IN  {SelectSeq(ints(0, ngroups), LAMBDA i : i \notin movedSet \/ i \in X) :
            X \in SUBSET movedSet}

\* energy with every index in range and an unsorted touched-group range
EnergyUnsorted ==
    /\ pc = "call"
    /\ ret.status = "none"
    /\ InRange(oldspc, change)
    /\ ~Sorted(touchedGroupIndex(change))
    /\ \E fixed \in FixedChoices(touchedGroupIndex(change), Len(oldspc.groups)) :
          LET e == energyWith(nb.pairpot, oldspc, newspc, change, fixed)
          IN  /\ ret' = [status |-> "ok", uold |-> e.uold, unew |-> e.unew]
              /\ nb' = [nb EXCEPT !.calls = e.n, !.pairs = e.pairs, !.gcalls = e.gcalls]
    /\ prev' = ret
    /\ UNCHANGED <<oldspc, newspc, change, sys, hist, pc, macro, micro>>
    /\ UNCHANGED rest

NextRaw == Energy \/ EnergyOutOfRange \/ EnergyUnsorted

SpecRaw == InitRaw /\ [][NextRaw]_vars

\* C9: a change set with a touched-group index out of range, or with indices
\* that are not sorted and unique, is rejected by energy before any call of
\* the pair potential, and never answered with an energy pair.
C9_InvalidChangeRejected ==
    (ret.status # "none" /\ ~ValidChange(oldspc, change)) =>
        (ret.status = "rejected" /\ nb.calls = 0)

----------------------------------------------------------------------------
(* Nonbonded::index2index: the pair energy summed over two lists of        *)
(* particle indices.  The lists are any sequences of valid indices into    *)
(* spc.p: repeated, overlapping and unordered ones included.               *)

MaxParticles == 3
MaxIndexLen == 2

\* what the energy evaluator, the tracker and the chain are when a
\* specification is about another object
Parked ==
    /\ oldspc = MkSpace(<<>>)
    /\ newspc = MkSpace(<<>>)
    /\ change = MkChange(<<>>)
    /\ nb = NewNonbonded
    /\ ret = NoReturn
    /\ prev = NoReturn
    /\ sys = NoTracker
    /\ hist = <<>>
    /\ macro = 0
    /\ micro = 0

parked == <<oldspc, newspc, change, nb, ret, prev, sys, hist, macro, micro>>

\* spc.p: the particle vector, the groups one after the other
RECURSIVE spc_p(_, _)
spc_p(spc, k) ==
    IF k = 0 THEN <<>> ELSE spc_p(spc, k - 1) \o spc.groups[k]

\* for (auto &j : index2) u += i2i(spc, spc.p[i], spc.p[j]);
RECURSIVE index2indexInner(_, _, _, _, _, _)
index2indexInner(acc, pot, spc, i, index2, b) ==
    IF b > Len(index2) THEN acc
    ELSE LET P == spc_p(spc, Len(spc.groups))
             j == index2[b]
         IN  index2indexInner([u     |-> acc.u + i2i(pot, spc, P[i + 1], P[j + 1]),
                               n     |-> acc.n + 1,
                               pairs |-> acc.pairs \cup {<<i, j>>}],
                              pot, spc, i, index2, b + 1)

\* for (auto &i : index1) ...
RECURSIVE index2indexOuter(_, _, _, _, _, _)
index2indexOuter(acc, pot, spc, index1, index2, a) ==
    IF a > Len(index1) THEN acc
    ELSE index2indexOuter(index2indexInner(acc, pot, spc, index1[a], index2, 1),
                          pot, spc, index1, index2, a + 1)

\* both loops run over the first list
index2indexFirstTwice(pot, spc, index1, index2) ==
    index2indexOuter(ZeroAcc, pot, spc, index1, index1, 1)

index2index(pot, spc, index1, index2) ==
    index2indexOuter(ZeroAcc, pot, spc, index1, index2, 1)

InitIndex ==
    /\ \E np \in 0..MaxParticles :
          i2x = [used |-> TRUE, spc |-> MkSpace(<<np>>), status |-> "none",
                 index1 |-> <<>>, index2 |-> <<>>, u |-> 0, n |-> 0, pairs |-> {}]
    /\ n2i = Unused /\ tbl = Unused /\ hg = Unused
    /\ pc = "index"
    /\ Parked

\* u = pot.index2index(spc, index1, index2)
Index2Index ==
    /\ pc = "index"
    /\ i2x.status = "none"
    /\ LET valid == 0..(Len(spc_p(i2x.spc, Len(i2x.spc.groups))) - 1)
       IN  \E index1 \in SeqsUpTo(valid, MaxIndexLen), index2 \in SeqsUpTo(valid, MaxIndexLen) :
              LET r == index2index(nb.pairpot, i2x.spc, index1, index2)
              IN  i2x' = [i2x EXCEPT !.status = "returned",
                                     !.index1 = index1, !.index2 = index2,
                                     !.u = r.u, !.n = r.n, !.pairs = r.pairs]
    /\ UNCHANGED <<n2i, tbl, hg, pc>>
    /\ UNCHANGED parked

NextIndex == Index2Index

SpecIndex == InitIndex /\ [][NextIndex]_vars

\* the group made of the particles at the indices of a list
GroupOf(spc, index) ==
    [k \in 1..Len(index) |-> spc_p(spc, Len(spc.groups))[index[k] + 1]]

\* C13: index2index on two index lists returns what g2g returns on the groups
\* made of the particles at those indices, which is the sum of the pair
\* energy over the cross product of the two lists, with |A| * |B| calls of
\* the pair potential, one for each position pair.
C13_IndexListsAsGroups ==
    (i2x.used /\ i2x.status = "returned") =>
        LET P  == spc_p(i2x.spc, Len(i2x.spc.groups))
            gA == GroupOf(i2x.spc, i2x.index1)
            gB == GroupOf(i2x.spc, i2x.index2)
            X  == (1..Len(i2x.index1)) \X (1..Len(i2x.index2))
        IN  /\ i2x.u = g2g(nb.pairpot, i2x.spc, gA, gB).u
            /\ i2x.n = g2g(nb.pairpot, i2x.spc, gA, gB).n
            /\ i2x.n = Len(i2x.index1) * Len(i2x.index2)
            /\ i2x.u = FnSum([ab \in X |->
                                pairpot(nb.pairpot, P[i2x.index1[ab[1]] + 1],
                                        P[i2x.index2[ab[2]] + 1],
                                        vdist(P[i2x.index1[ab[1]] + 1].pos,
                                              P[i2x.index2[ab[2]] + 1].pos))], X)
            /\ i2x.pairs = {<<i2x.index1[ab[1]], i2x.index2[ab[2]]>> : ab \in X}

\* two lists of two indices that differ, the second with a repeated index
C13_Witness ==
    /\ i2x.used /\ i2x.status = "returned"
    /\ i2x.index1 = <<0, 2>> /\ i2x.index2 = <<1, 1>>
    /\ i2x.n = 4
    /\ i2x.u # 0

----------------------------------------------------------------------------
(* names2ids: names looked up in a range of AtomData.  An element is       *)
(* [name, id]; ids are whatever the elements hold, not their positions.    *)

MaxAtoms == 2
MaxNames == 2

AtomNames == {"a", "b"}
QueryNames == {"a", "b", "c", "*"}
AtomIds == 0..MaxAtoms

\* std::find_if from position k on: the first element whose name matches,
\* Len(rng) + 1 standing for rng.end()
RECURSIVE findNameFrom(_, _, _)
findNameFrom(rng, name, k) ==
    IF k > Len(rng) THEN Len(rng) + 1
    ELSE IF rng[k].name = name THEN k
    ELSE findNameFrom(rng, name, k + 1)

findName(rng, name) == findNameFrom(rng, name, 1)

\* the loop without the wildcard branch
RECURSIVE names2idsLoopNoWildcard(_, _, _, _)
names2idsLoopNoWildcard(rng, names, k, index) ==
    IF k > Len(names) THEN [status |-> "returned", index |-> index, what |-> ""]
    ELSE LET it == findName(rng, names[k])
         IN  IF it # Len(rng) + 1
             THEN names2idsLoopNoWildcard(rng, names, k + 1, Append(index, rng[it].id))
             ELSE [status |-> "thrown", index |-> <<>>, what |-> names[k]]

\* for (auto &n : names) ...; return index;
RECURSIVE names2idsLoop(_, _, _, _)
names2idsLoop(rng, names, k, index) ==
    IF k > Len(names) THEN [status |-> "returned", index |-> index, what |-> ""]
    ELSE IF names[k] = "*"
         THEN [status |-> "returned", index |-> ints(0, Len(rng)), what |-> ""]
    ELSE LET it == findName(rng, names[k])
         IN  IF it # Len(rng) + 1
             THEN names2idsLoop(rng, names, k + 1, Append(index, rng[it].id))
             ELSE [status |-> "thrown", index |-> <<>>, what |-> names[k]]

names2ids(rng, names) == names2idsLoop(rng, names, 1, <<>>)

InitNames ==
    /\ \E rng \in SeqsUpTo([name : AtomNames, id : AtomIds], MaxAtoms) :
          n2i = [used |-> TRUE, rng |-> rng, names |-> <<>>,
                 status |-> "none", index |-> <<>>, what |-> ""]
    /\ i2x = Unused /\ tbl = Unused /\ hg = Unused
    /\ pc = "names"
    /\ Parked

\* index = names2ids(rng, names), or the exception it throws
Names2Ids ==
    /\ pc = "names"
    /\ \E names \in SeqsUpTo(QueryNames, MaxNames) :
          LET r == names2ids(n2i.rng, names)
          IN  n2i' = [n2i EXCEPT !.names = names, !.status = r.status,
                                 !.index = r.index, !.what = r.what]
    /\ UNCHANGED <<i2x, tbl, hg, pc>>
    /\ UNCHANGED parked

NextNames == Names2Ids

SpecNames == InitNames /\ [][NextNames]_vars

\* a name some element of the range bears
Found(rng, name) == \E k \in 1..Len(rng) : rng[k].name = name

\* the id of the first element of the range that bears the name
FirstId(rng, name) ==
    rng[CHOOSE k \in 1..Len(rng) :
            /\ rng[k].name = name
            /\ \A l \in 1..(k - 1) : rng[l].name # name].id

Stops(rng, names) ==
    {k \in 1..Len(names) : names[k] = "*" \/ ~Found(rng, names[k])}

FirstStop(rng, names) ==
    CHOOSE k \in Stops(rng, names) : \A l \in Stops(rng, names) : k <= l

----------------------------------------------------------------------------
(* Table2D<Tx,Ty>: a std::map from rounded x to y.  x and dx are in units  *)
(* of half the smallest resolution, so that x/dx + 0.5 is computed on      *)
(* integers; the map is a function on its set of keys, iterated in         *)
(* ascending key order.                                                    *)

MaxSamples == 3
MaxX == 3

Resolutions == {2, 4}

\* (x>=0) ? int( x/dx+0.5 )*dx : int( x/dx-0.5 )*dx, int() truncating to zero
round(dx, x) ==
    IF x >= 0 THEN ((2 * x + dx) \div (2 * dx)) * dx
    ELSE (0 - (((2 * (0 - x)) + dx) \div (2 * dx))) * dx

\* map[key]: the key is inserted with a zero value if it is not there
subscript(map, key) ==
    [k \in (DOMAIN map) \cup {key} |-> IF k \in DOMAIN map THEN map[k] ELSE 0]

\* Ty& operator()(Tx x): the map after the access and the key referred to
tableAt(map, dx, x) == [map |-> subscript(map, round(dx, x)), key |-> round(dx, x)]

\* virtual double get(Tx x) { return operator()(x); }
get(map, dx, x) ==
    LET r == tableAt(map, dx, x)
    IN  [map |-> r.map, value |-> r.map[r.key]]

\* for (auto m : mapbak) f << m.first << " " << get( m.first ) << endl;
RECURSIVE saveLoop(_, _, _, _, _)
saveLoop(map, dx, keys, k, out) ==
    IF k > Len(keys) THEN [map |-> map, written |-> out]
    ELSE LET g == get(map, dx, keys[k])
         IN  saveLoop(g.map, dx, keys, k + 1, Append(out, <<keys[k], g.value>>))

\* save(filename); opened: whether the std::ofstream could be opened
save(map, dx, opened) ==
    LET keys   == SortedSeq(DOMAIN map)
        first  == keys[1]
        last   == keys[Len(keys)]
        bak1   == [map EXCEPT ![first] = @ * 2]
        mapbak == IF Len(keys) > 1 THEN [bak1 EXCEPT ![last] = @ * 2] ELSE bak1
    IN  IF Len(keys) > 0 /\ opened
        THEN saveLoop(map, dx, SortedSeq(DOMAIN mapbak), 1, <<>>)
        ELSE [map |-> map, written |-> <<>>]

EmptyMap == [k \in {} |-> 0]

InitTable ==
    /\ \E dx \in Resolutions :
          tbl = [used |-> TRUE, dx |-> dx, map |-> EmptyMap, samples |-> 0,
                 status |-> "none", before |-> EmptyMap, written |-> <<>>]
    /\ i2x = Unused /\ n2i = Unused /\ hg = Unused
    /\ pc = "table"
    /\ Parked

\* table(x)++
TableIncrement ==
    /\ pc = "table"
    /\ tbl.samples < MaxSamples
    /\ \E x \in (0 - MaxX)..MaxX :
          LET r == tableAt(tbl.map, tbl.dx, x)
          IN  tbl' = [tbl EXCEPT !.map = [r.map EXCEPT ![r.key] = @ + 1],
                                 !.samples = @ + 1,
                                 !.status = "none",
                                 !.before = EmptyMap,
                                 !.written = <<>>]
    /\ UNCHANGED <<i2x, n2i, hg, pc>>
    /\ UNCHANGED parked

\* table.save(filename)
TableSave ==
    /\ pc = "table"
    /\ tbl.status = "none"
    /\ \E opened \in BOOLEAN :
          LET r == save(tbl.map, tbl.dx, opened)
          IN  tbl' = [tbl EXCEPT !.map = r.map,
                                 !.status = IF opened THEN "saved" ELSE "failed",
                                 !.before = tbl.map,
                                 !.written = r.written]
    /\ UNCHANGED <<i2x, n2i, hg, pc>>
    /\ UNCHANGED parked

NextTable == TableIncrement \/ TableSave

SpecTable == InitTable /\ [][NextTable]_vars

\* C17: save writes, for each key of the table in ascending order, twice the
\* stored value for the first key and (with more than one key) the last key
\* and the stored value for every other key, and leaves the table's map as
\* it was.
C17_SaveDoublesEnds ==
    (tbl.used /\ tbl.status = "saved") =>
        LET keys == SortedSeq(DOMAIN tbl.before)
        IN  /\ tbl.map = tbl.before
            /\ Len(tbl.written) = Len(keys)
            /\ \A k \in 1..Len(keys) :
                  /\ tbl.written[k][1] = keys[k]
                  /\ tbl.written[k][2] =
                        IF k = 1 \/ k = Len(keys)
                        THEN 2 * tbl.before[keys[k]]
                        ELSE tbl.before[keys[k]]

----------------------------------------------------------------------------
(* histogram: an xytable of counts with a total.  x, the resolution and    *)
(* the limits are integers in one unit.  The base class xytable keeps the  *)
(* bins in a vector y that grows on access; xs is the list of the values   *)
(* add was called with.                                                    *)

MaxAdds == 3

HistogramLimits == {<<0 - 2, 2>>, <<0, 3>>}
HistogramResolutions == {1, 2}

\* xytable::x2i: the bin of x, round((x - xmin) / xres)
x2i(h, x) == (2 * (x - h.xmini) + h.xres) \div (2 * h.xres)

\* xytable::operator()(x): the vector grown to hold the bin of x
binAt(h, x) ==
    LET i == x2i(h, x)
    IN  [y |-> [k \in 1..(IF i + 1 > Len(h.y) THEN i + 1 ELSE Len(h.y)) |->
                   IF k <= Len(h.y) THEN h.y[k] ELSE 0],
         i |-> i]

\* histogram(res, min, max)
newHistogram(res, min, max) ==
    [used |-> TRUE, xres |-> res, xmini |-> min, xmaxi |-> max,
     cnt |-> 0, y |-> <<>>, xs |-> <<>>]

\* the limits themselves taken as inside
addInclusive(h, x) ==
    IF x > h.xmaxi \/ x < h.xmini THEN h
    ELSE LET r == binAt(h, x)
         IN  [h EXCEPT !.y = [r.y EXCEPT ![r.i + 1] = @ + 1], !.cnt = @ + 1]

\* if (x>=xmaxi || x<=xmini) return; (*this)(x)++; cnt++;
add(h, x) ==
    IF x >= h.xmaxi \/ x <= h.xmini THEN h
    ELSE LET r == binAt(h, x)
         IN  [h EXCEPT !.y = [r.y EXCEPT ![r.i + 1] = @ + 1], !.cnt = @ + 1]

InitHistogram ==
    /\ \E res \in HistogramResolutions, lim \in HistogramLimits :
          hg = newHistogram(res, lim[1], lim[2])
    /\ i2x = Unused /\ n2i = Unused /\ tbl = Unused
    /\ pc = "histogram"
    /\ Parked

\* h.add(x)
HistogramAdd ==
    /\ pc = "histogram"
    /\ Len(hg.xs) < MaxAdds
    /\ \E x \in (0 - MaxX)..MaxX :
          hg' = [add(hg, x) EXCEPT !.xs = Append(hg.xs, x)]
    /\ UNCHANGED <<i2x, n2i, tbl, pc>>
    /\ UNCHANGED parked

NextHistogram == HistogramAdd

SpecHistogram == InitHistogram /\ [][NextHistogram]_vars

InLimits(h, x) == h.xmini < x /\ x < h.xmaxi

====
